---------------------------- MODULE Spec2Model ----------------------------
(***************************************************************************)
(* The pattern matcher of grope (package matcher): Match, MatchWithIdx and *)
(* the single-position matcher matchStart, executed one loop iteration at  *)
(* a time.                                                                 *)
(*                                                                         *)
(* Lines and patterns are sequences of bytes (integers 0..255).  Cursors   *)
(* are 0-based as in the Go code; At and Slice translate to TLA+'s 1-based *)
(* sequences.                                                              *)
(***************************************************************************)
EXTENDS Integers, Sequences, FiniteSets

VARIABLES
    line,       \* the line argument of Match / MatchWithIdx
    pattern,    \* the pattern argument of Match / MatchWithIdx
    pc,         \* "call" | "match" | "done" | "panic"
    i,          \* the offset of the attempt in progress (MatchWithIdx's i)
    anchored,   \* TRUE when MatchWithIdx took the `^` branch
    stack,      \* activations of matchStart, innermost last
    idx,        \* the value MatchWithIdx returned (meaningful when pc = "done")
    matched,    \* the value Match returned (meaningful when pc = "done")
    attempts,   \* history: the matchStart calls of MatchWithIdx that returned,
                \* each with its arguments, its result, its final line cursor
                \* and the alternatives it tried
    tried       \* history: the activations for group alternatives that have
                \* returned in the matchStart call in progress

matcherVars ==
    <<line, pattern, pc, i, anchored, stack, idx, matched, attempts, tried>>

(* Processor (package parallel) *)
VARIABLES
    items,        \* the items argument
    failing,      \* the indices for which processFunc returns an error
    numWorkers,   \* the numWorkers argument, then the number of workers started
    ppc,          \* the calling goroutine: "call" | "collect" | "done"
    itemChan,     \* the unbuffered channel: [closed, taken], taken the indices
                  \* handed over so far, in order
    resultsChan,  \* the buffered channel: [closed, buf]
    wg,           \* the WaitGroup counter
    workers,      \* per worker goroutine: [pc, itemIdx, result]
    feeder,       \* the feeding goroutine: [pc, idx]
    results,      \* the results slice of the caller
    errors,       \* the errors slice of the caller
    returned,     \* what Processor returned: [results, err]
    calls,        \* history: per item, how many times processFunc was called
    collected     \* history: per item, how many of its Results the caller received

procVars ==
    <<items, failing, numWorkers, ppc, itemChan, resultsChan, wg, workers,
      feeder, results, errors, returned, calls, collected>>

(* SearchWithPattern (package file, fu.go lines 121-236) *)
VARIABLES searchPattern, options, spc, walkIdx, foundFiles, matchLog
searchVars == <<searchPattern, options, spc, walkIdx, foundFiles, matchLog>>

(* FileWatcher (package fw, part_004 lines 243-448) *)
VARIABLES
    ignorePaths,    \* the keys of fw.ignorePaths
    wpc,            \* where the goroutine running start() is
    pendingEvents,  \* the map the variable pendingEvents of start() refers to
    timer,          \* the timer of the last time.AfterFunc: [armed, at]
    cb,             \* the goroutine of the timer's callback: [pc, todo]
    eventCh,        \* what was sent on fw.eventCh, each with the time of the send
    clock,          \* the time, in ticks
    received        \* history: the events start() received, each with its time

watchVars == <<ignorePaths, wpc, pendingEvents, timer, cb, eventCh, clock, received>>

\* the variables of the other components
nonMatcherVars == <<procVars, searchVars, watchVars>>
nonProcVars == <<matcherVars, searchVars, watchVars>>
nonSearchVars == <<matcherVars, procVars, watchVars>>
nonWatchVars == <<matcherVars, procVars, searchVars>>

vars == <<matcherVars, nonMatcherVars>>

\* no call of Processor is in progress
ProcIdle ==
    /\ items = <<>>
    /\ failing = {}
    /\ numWorkers = 0
    /\ ppc = "idle"
    /\ itemChan = [closed |-> FALSE, taken |-> <<>>]
    /\ resultsChan = [closed |-> FALSE, buf |-> <<>>]
    /\ wg = 0
    /\ workers = <<>>
    /\ feeder = [pc |-> "idle", idx |-> 0]
    /\ results = <<>>
    /\ errors = <<>>
    /\ returned = [results |-> <<>>, isNil |-> FALSE, err |-> <<>>]
    /\ calls = <<>>
    /\ collected = <<>>

\* no search is in progress
SearchIdle ==
    /\ searchPattern = <<>>
    /\ options = [Recursive |-> FALSE, Invert |-> FALSE, MaxDepth |-> 0,
                  CaseSensitive |-> FALSE, Hidden |-> FALSE, MaxSize |-> 0,
                  MinSize |-> 0, ModifiedAfter |-> 0, ModifiedBefore |-> 0]
    /\ spc = "idle"
    /\ walkIdx = 0
    /\ foundFiles = <<>>
    /\ matchLog = {}

\* no watcher was made
WatchIdle ==
    /\ ignorePaths = {}
    /\ wpc = "idle"
    /\ pendingEvents = <<>>
    /\ timer = [armed |-> FALSE, at |-> 0]
    /\ cb = [pc |-> "idle", todo |-> {}]
    /\ eventCh = <<>>
    /\ clock = 0
    /\ received = <<>>

----------------------------------------------------------------------------
(* Bounds of the model *)

MaxLineLen == 3     \* lines of the general inputs have at most this many bytes
MaxToks == 2        \* general patterns are made of at most this many pieces
MaxBody == 2        \* bracket-class bodies of the class inputs: at most MaxBody + 1 bytes
MaxSpin == 2        \* loop iterations followed beyond the pattern length
MaxAlt == 2         \* alternatives of the group inputs have at most this many bytes
MaxItems == 3       \* Processor is called with at most this many items
MaxWorkers == 2     \* and with numWorkers at most this
MaxCPU == 2         \* runtime.NumCPU() is at most this
MaxEvents == 3      \* the watcher receives at most this many filesystem events
MaxTime == 4        \* and is followed for this many ticks

----------------------------------------------------------------------------
(* The pattern alphabet, part_004 lines 10-26 *)

StartsWith == 94
EndsWith == 36
Backslash == 92
Digit == 100
AlphaNumeric == 119
LeftBracket == 91
RightBracket == 93
NotInClass == 94
OneOrMore == 43
ZeroOrOne == 63
ZeroOrMore == 42
AnyCharacter == 46
OrCharacter == 124
LeftParen == 40
RightParen == 41

----------------------------------------------------------------------------
(* Go strings and slices *)

\* s[k] of Go
At(s, k) == s[k + 1]

\* s[lo:hi] of Go, for 0 <= lo <= hi <= len(s)
Slice(s, lo, hi) == SubSeq(s, lo + 1, hi)

\* s[lo:] of Go
From(s, lo) == SubSeq(s, lo + 1, Len(s))

\* IndexByte that gives len(s) when c is not in s
IndexByte_OrLen(s, c) ==
    IF \E k \in 1..Len(s) : s[k] = c
    THEN (CHOOSE k \in 1..Len(s) : s[k] = c /\ \A j \in 1..(k - 1) : s[j] # c) - 1
    ELSE Len(s)

\* strings.IndexByte(s, c): the index of the first c in s, or -1
IndexByte(s, c) ==
    IF \E k \in 1..Len(s) : s[k] = c
    THEN (CHOOSE k \in 1..Len(s) : s[k] = c /\ \A j \in 1..(k - 1) : s[j] # c) - 1
    ELSE -1

\* strings.Contains(s, sub)
Contains(s, sub) ==
    \E k \in 0..(Len(s) - Len(sub)) : Slice(s, k, k + Len(sub)) = sub

\* strings.Split(s, string(c)) for a one-byte separator
RECURSIVE Split(_, _)
Split(s, c) ==
    LET k == IndexByte(s, c)
    IN  IF k = -1 THEN <<s>>
        ELSE <<Slice(s, 0, k)>> \o Split(From(s, k + 1), c)

\* string(r) for a rune r in 0..0x7FF: its UTF-8 encoding
EncodeRune(r) ==
    IF r < 128 THEN <<r>>
    ELSE <<192 + (r \div 64), 128 + (r % 64)>>

\* strings.ContainsRune(s, r) for a valid rune r other than utf8.RuneError:
\* a byte search below utf8.RuneSelf (128), else a search for the encoding of r
ContainsRune(s, r) ==
    IF r < 128 THEN IndexByte(s, r) # -1
    ELSE Contains(s, EncodeRune(r))

\* unicode.IsDigit(r) for r <= unicode.MaxLatin1
IsDigit(r) == r \in 48..57

\* unicode.IsLetter(r) for r <= unicode.MaxLatin1
IsLetter(r) ==
    r \in (65..90) \cup (97..122) \cup {170, 181, 186}
          \cup (192..214) \cup (216..246) \cup (248..255)

----------------------------------------------------------------------------
(* The helpers of matchStart *)

\* matchEscapeSequence whose \w leaves out the underscore
matchEscapeSequence_NoUnderscore(char, escapeChar) ==
    CASE escapeChar = Digit -> IsDigit(char)
      [] escapeChar = AlphaNumeric -> IsLetter(char) \/ IsDigit(char)
      [] OTHER -> char = escapeChar

\* matchEscapeSequence(char, escapeChar); rune(char) of a byte is its value
matchEscapeSequence(char, escapeChar) ==
    CASE escapeChar = Digit -> IsDigit(char)
      [] escapeChar = AlphaNumeric ->
            IsLetter(char) \/ IsDigit(char) \/ char = 95
      [] OTHER -> char = escapeChar

\* matchCharacterClass(char, class) for a non-empty class (class[0] of an
\* empty class is a run-time panic, raised in BracketStep)
matchCharacterClass(char, class) ==
    IF At(class, 0) = NotInClass
    THEN ~ContainsRune(From(class, 1), char)
    ELSE ContainsRune(class, char)

\* matchRepetition that leaves the last byte of a run of two or more
matchRepetition_LeaveOne(l, char) ==
    LET run == CHOOSE n \in 0..Len(l) :
                   /\ \A k \in 1..n : l[k] = char
                   /\ (n = Len(l) \/ l[n + 1] # char)
    IN  IF run > 1 THEN run - 1 ELSE run

\* matchRepetition that counts one past the end of the line
RECURSIVE matchRepetition_Overrun(_, _)
matchRepetition_Overrun(l, char) ==
    IF l = <<>> THEN 1
    ELSE IF Head(l) # char THEN 0
    ELSE 1 + matchRepetition_Overrun(Tail(l), char)

\* matchRepetition(line, char): the length of the run of char at the start
RECURSIVE matchRepetition(_, _)
matchRepetition(l, char) ==
    IF l = <<>> \/ Head(l) # char THEN 0
    ELSE 1 + matchRepetition(Tail(l), char)

isQuantifier(char) ==
    char = OneOrMore \/ char = ZeroOrOne \/ char = ZeroOrMore

\* handleQuantifier for which a quantified `.` counts bytes of any value
handleQuantifier_Wildcard(l, char, quantifier) ==
    LET count == IF char = AnyCharacter THEN Len(l) ELSE matchRepetition(l, char)
    IN  CASE quantifier = ZeroOrMore -> <<count, TRUE>>
          [] quantifier = OneOrMore -> <<count, count > 0>>
          [] quantifier = ZeroOrOne -> <<IF count > 1 THEN 1 ELSE count, TRUE>>
          [] OTHER -> <<0, FALSE>>

\* handleQuantifier whose `?` does not clamp the count
handleQuantifier_Unclamped(l, char, quantifier) ==
    LET count == matchRepetition(l, char)
    IN  CASE quantifier = ZeroOrMore -> <<count, TRUE>>
          [] quantifier = OneOrMore -> <<count, count > 0>>
          [] quantifier = ZeroOrOne -> <<count, TRUE>>
          [] OTHER -> <<0, FALSE>>

\* handleQuantifier(line, char, quantifier): <<count, ok>>
handleQuantifier(l, char, quantifier) ==
    LET count == matchRepetition(l, char)
    IN  CASE quantifier = ZeroOrMore -> <<count, TRUE>>
          [] quantifier = OneOrMore -> <<count, count > 0>>
          [] quantifier = ZeroOrOne -> <<IF count > 1 THEN 1 ELSE count, TRUE>>
          [] OTHER -> <<0, FALSE>>

\* literalMatches without the wildcard
literalMatches_NoWildcard(p, c) == p = c

\* the literal-or-wildcard test of matchStart's last case
literalMatches(p, c) == p = c \/ p = AnyCharacter

\* MatchResult with `idx > 0` for `idx != -1`
MatchResult_Positive(n) == n > 0

\* Match's return value from the index MatchWithIdx returned
MatchResult(n) == n # -1

----------------------------------------------------------------------------
(* Activations of matchStart *)

\* a fresh activation matchStart(l, p): lineIdx := 0, patIdx := 0.  alts are
\* the alternatives of a group still to be tried by the `for _, alt` loop;
\* iter counts the iterations of the `for patIdx < len(pattern)` loop.
Frame(l, p) ==
    [line |-> l, pattern |-> p, lineIdx |-> 0, patIdx |-> 0,
     alts |-> <<>>, iter |-> 0]

Top == stack[Len(stack)]

Callers(stk) == SubSeq(stk, 1, Len(stk) - 1)

\* the innermost activation is at the head of its loop
AtLoopHead ==
    /\ pc = "match"
    /\ Top.iter < Len(Top.pattern) + MaxSpin

\* the loop body is entered past the line-exhausted check
InLoop ==
    /\ AtLoopHead
    /\ Top.patIdx < Len(Top.pattern)
    /\ Top.lineIdx < Len(Top.line)

PatByte == At(Top.pattern, Top.patIdx)
LineByte == At(Top.line, Top.lineIdx)

IsQuantified ==
    /\ Top.patIdx + 1 < Len(Top.pattern)
    /\ isQuantifier(At(Top.pattern, Top.patIdx + 1))

\* exhaustedResult that also accepts a remainder x* or x?
exhaustedResult_ZeroWidth(p, patIdx) ==
    \/ patIdx = Len(p)
    \/ (patIdx = Len(p) - 1 /\ At(p, patIdx) = EndsWith)
    \/ (patIdx = Len(p) - 2 /\ At(p, patIdx + 1) \in {ZeroOrMore, ZeroOrOne})

\* the value of the line-exhausted check, part_004 line 85
exhaustedResult(p, patIdx) ==
    \/ patIdx = Len(p)
    \/ (patIdx = Len(p) - 1 /\ At(p, patIdx) = EndsWith)

\* Unwind that gives up the group after its first alternative failed
RECURSIVE Unwind_FirstAlternativeOnly(_, _, _)
Unwind_FirstAlternativeOnly(stk, v, used) ==
    IF stk = <<>>
    THEN [returned |-> TRUE, ret |-> v, used |-> used, stack |-> <<>>]
    ELSE LET caller == stk[Len(stk)]
         IN  Unwind_FirstAlternativeOnly(Callers(stk), v,
                 IF v THEN caller.lineIdx + used ELSE caller.lineIdx)

\* An activation returned v with its line cursor at used; stk are its
\* callers.  A caller is inside the `for _, alt` loop of the group case: it
\* returns true on true, tries the next alternative on false, and returns
\* false after the last one.
RECURSIVE Unwind(_, _, _)
Unwind(stk, v, used) ==
    IF stk = <<>>
    THEN [returned |-> TRUE, ret |-> v, used |-> used, stack |-> <<>>]
    ELSE LET caller == stk[Len(stk)]
         IN  IF v THEN Unwind(Callers(stk), TRUE, caller.lineIdx + used)
             ELSE IF caller.alts # <<>>
             THEN [returned |-> FALSE, ret |-> FALSE, used |-> 0,
                   stack |-> Callers(stk)
                        \o <<[caller EXCEPT !.alts = Tail(@)]>>
                        \o <<Frame(From(caller.line, caller.lineIdx),
                                   Head(caller.alts))>>]
             ELSE Unwind(Callers(stk), FALSE, caller.lineIdx)

\* afterAttempt that goes on scanning after a success and reports the last offset
afterAttempt_Last(anch, ok, off, l) ==
    IF anch THEN <<TRUE, IF ok THEN 0 ELSE -1>>
    ELSE IF off + 1 < Len(l) THEN <<FALSE, off + 1>>
    ELSE <<TRUE, IF ok THEN off ELSE -1>>

\* what MatchWithIdx does with the result ok of the attempt at offset off:
\* <<TRUE, n>> returns n, <<FALSE, n>> goes on with offset n
afterAttempt(anch, ok, off, l) ==
    IF anch THEN <<TRUE, IF ok THEN 0 ELSE -1>>
    ELSE IF ok THEN <<TRUE, off>>
    ELSE IF off + 1 < Len(l) THEN <<FALSE, off + 1>>
    ELSE <<TRUE, -1>>

\* attemptPattern that leaves the anchor in the pattern
attemptPattern_KeepAnchor(anch, p) == p

\* the pattern MatchWithIdx hands to matchStart
attemptPattern(anch, p) == IF anch THEN From(p, 1) ELSE p

\* earlyReturn that lets the empty line be attempted
earlyReturn_AttemptEmpty(l, p) ==
    IF Len(p) = 0 THEN <<TRUE, 0>> ELSE <<FALSE, 0>>

\* earlyReturn that reports no match for the empty pattern
earlyReturn_EmptyFails(l, p) ==
    IF Len(p) = 0 THEN <<TRUE, -1>>
    ELSE IF At(p, 0) # StartsWith /\ Len(l) = 0 THEN <<TRUE, -1>>
    ELSE <<FALSE, 0>>

\* the returns of MatchWithIdx that call matchStart not at all: <<TRUE, n>>
\* returns n (the empty pattern; the empty line, over which `range line`
\* runs no iteration, unless the pattern is anchored), <<FALSE, 0>> goes on
earlyReturn(l, p) ==
    IF Len(p) = 0 THEN <<TRUE, 0>>
    ELSE IF At(p, 0) # StartsWith /\ Len(l) = 0 THEN <<TRUE, -1>>
    ELSE <<FALSE, 0>>

\* MatchWithIdx returns n, and Match returns with it
Finish(n) ==
    /\ pc' = "done"
    /\ idx' = n
    /\ matched' = MatchResult(n)
    /\ stack' = <<>>

\* the innermost activation returns v
Return(v) ==
    LET u == Unwind(Callers(stack), v, Top.lineIdx)
        now == IF Len(stack) > 1
               THEN Append(tried, [alt |-> Top, caller |-> stack[Len(stack) - 1],
                                   ok |-> v])
               ELSE tried
    IN  IF ~u.returned
        THEN /\ stack' = u.stack
             /\ tried' = now
             /\ UNCHANGED <<line, pattern, pc, i, anchored, idx, matched, attempts>>
        ELSE LET d == afterAttempt(anchored, u.ret, i, line)
             IN  /\ attempts' = Append(attempts,
                        [line |-> stack[1].line, pat |-> stack[1].pattern,
                         ok |-> u.ret, used |-> u.used, alts |-> now])
                 /\ tried' = <<>>
                 /\ IF d[1]
                    THEN Finish(d[2]) /\ UNCHANGED i
                    ELSE /\ i' = d[2]
                         /\ stack' = <<Frame(From(line, d[2]),
                                              attemptPattern(anchored, pattern))>>
                         /\ UNCHANGED <<pc, idx, matched>>
                 /\ UNCHANGED <<line, pattern, anchored>>

\* the iteration ends with the cursors advanced by dl and dp
Advance(dl, dp) ==
    /\ stack' = [stack EXCEPT ![Len(stack)] =
                    [@ EXCEPT !.lineIdx = @ + dl, !.patIdx = @ + dp,
                              !.iter = @ + 1]]
    /\ UNCHANGED <<line, pattern, pc, i, anchored, idx, matched, attempts, tried>>

\* a run-time panic (index or slice bounds out of range) ends the call
Panic ==
    /\ pc' = "panic"
    /\ UNCHANGED <<line, pattern, i, anchored, stack, idx, matched, attempts, tried>>

----------------------------------------------------------------------------
(* The inputs: lines and patterns the calls are made with *)

\* all byte strings over B of at most n bytes
RECURSIVE Strings(_, _)
Strings(B, n) ==
    IF n = 0 THEN {<<>>}
    ELSE LET shorter == Strings(B, n - 1)
         IN  shorter \cup {Append(s, c) : s \in shorter, c \in B}

\* pattern pieces: every byte of the pattern alphabet and whole tokens
Pieces ==
    { <<97>>, <<98>>,                                           \* a  b
      <<AnyCharacter>>, <<Backslash>>, <<LeftBracket>>, <<RightBracket>>,
      <<LeftParen>>, <<RightParen>>, <<OrCharacter>>,
      <<ZeroOrMore>>, <<OneOrMore>>, <<ZeroOrOne>>,
      <<StartsWith>>, <<EndsWith>>,
      <<Backslash, Digit>>, <<Backslash, AlphaNumeric>>,        \* \d  \w
      <<LeftBracket, 97, 98, RightBracket>>,                    \* [ab]
      <<LeftBracket, NotInClass, 97, RightBracket>>,            \* [^a]
      <<LeftParen, 97, OrCharacter, 98, RightParen>>,           \* (a|b)
      <<LeftParen, 97, RightParen>>,                            \* (a)
      <<97, ZeroOrMore>>, <<97, OneOrMore>>, <<97, ZeroOrOne>> }   \* a*  a+  a?

\* the concatenations of at most n pieces
RECURSIVE Concats(_)
Concats(n) ==
    IF n = 0 THEN {<<>>}
    ELSE LET shorter == Concats(n - 1)
         IN  shorter \cup {p \o t : p \in shorter, t \in Pieces}

\* general inputs: lines over a, b against every pattern of the pieces
GeneralLines == Strings({97, 98}, MaxLineLen)
GeneralPatterns == Concats(MaxToks)

\* lines that hold the byte `$`, against patterns that end in `$`
DollarLines == Strings({97, EndsWith}, MaxLineLen)
DollarPatterns == {Append(p, EndsWith) : p \in Concats(1)}

\* one-byte lines against one bracket class; the bytes include non-ASCII ones
\* (0xE9, and 0xC3 0xA9, the UTF-8 encoding of U+00E9)
ClassBytes == {97, 98, NotInClass, 233, 195, 169}
ClassLines == {<<c>> : c \in ClassBytes}
ClassPatterns ==
    {<<LeftBracket>> \o b \o <<RightBracket>> : b \in Strings(ClassBytes, MaxBody + 1)}

\* a group of two alternatives over a, b, alone or followed by `b` or `$`
GroupPatterns ==
    {<<LeftParen>> \o x \o <<OrCharacter>> \o y \o <<RightParen>> \o r :
        x \in Strings({97, 98}, MaxAlt), y \in Strings({97, 98}, MaxAlt),
        r \in {<<>>, <<98>>, <<EndsWith>>}}

\* inputs on which the line is used up with pattern left: a and ab against
\* ab*, ab?, a$, ab$, a$$
ExhaustLines == {<<97>>, <<97, 98>>}
ExhaustPatterns ==
    {<<97>> \o r : r \in {<<98, ZeroOrMore>>, <<98, ZeroOrOne>>, <<EndsWith>>,
                          <<98, EndsWith>>, <<EndsWith, EndsWith>>}}

\* inputs for the escaped classes: lines of one or two of the bytes a 1 _ d
\* - and 0xB2, 0xE9 (superscript two and e-acute as code points) against
\* \d, \w, \-, \d\w, a lone \ and a\
EscapeBytes == {97, 49, 95, Digit, 45, 178, 233}
EscapeLines == {<<c>> : c \in EscapeBytes} \cup {<<c, e>> : c \in EscapeBytes, e \in EscapeBytes}
EscapePatterns ==
    { <<Backslash, Digit>>, <<Backslash, AlphaNumeric>>, <<Backslash, 45>>,
      <<Backslash, Digit, Backslash, AlphaNumeric>>, <<Backslash>>, <<97, Backslash>> }

\* inputs with a quantifier after a class or after `.`: the lines 1*, 11,
\* ..a, aa against \d*, \d+, [1a]*, [1a]?, .*a, .+a, .?
DispatchLines == {<<49, ZeroOrMore>>, <<49, 49>>, <<AnyCharacter, AnyCharacter, 97>>, <<97, 97>>}
DispatchPatterns ==
    { <<Backslash, Digit, ZeroOrMore>>, <<Backslash, Digit, OneOrMore>>,
      <<LeftBracket, 49, 97, RightBracket, ZeroOrMore>>,
      <<LeftBracket, 49, 97, RightBracket, ZeroOrOne>>,
      <<AnyCharacter, ZeroOrMore, 97>>, <<AnyCharacter, OneOrMore, 97>>,
      <<AnyCharacter, ZeroOrOne>> }

\* the call Match(l, p) is about to be made
Start(l, p) ==
    /\ line = l
    /\ pattern = p
    /\ pc = "call"
    /\ i = 0
    /\ anchored = FALSE
    /\ stack = <<>>
    /\ idx = 0
    /\ matched = FALSE
    /\ attempts = <<>>
    /\ tried = <<>>
    /\ ProcIdle
    /\ SearchIdle
    /\ WatchIdle

----------------------------------------------------------------------------
(* The state machine *)

Init ==
    \/ \E l \in GeneralLines, p \in GeneralPatterns : Start(l, p)
    \/ \E l \in DollarLines, p \in DollarPatterns : Start(l, p)
    \/ \E l \in ClassLines, p \in ClassPatterns : Start(l, p)
    \/ \E l \in GeneralLines, p \in GroupPatterns : Start(l, p)
    \/ \E l \in ExhaustLines, p \in ExhaustPatterns : Start(l, p)
    \/ \E l \in EscapeLines, p \in EscapePatterns : Start(l, p)
    \/ \E l \in DispatchLines, p \in DispatchPatterns : Start(l, p)

\* MatchWithIdx up to its first call of matchStart (part_004 lines 49-62)
Call ==
    /\ pc = "call"
    /\ UNCHANGED nonMatcherVars
    /\ UNCHANGED <<line, pattern, attempts, tried>>
    /\ LET e == earlyReturn(line, pattern)
       IN  IF e[1]
           THEN Finish(e[2]) /\ UNCHANGED <<i, anchored>>
           ELSE /\ anchored' = (At(pattern, 0) = StartsWith)
                /\ pc' = "match"
                /\ stack' = <<Frame(From(line, 0), attemptPattern(anchored', pattern))>>
                /\ UNCHANGED <<i, idx, matched>>

\* the loop condition fails: return true (line 148)
LoopExit ==
    /\ AtLoopHead
    /\ UNCHANGED nonMatcherVars
    /\ Top.patIdx >= Len(Top.pattern)
    /\ Return(TRUE)

\* the line is exhausted while pattern remains (lines 84-86)
Exhausted ==
    /\ AtLoopHead
    /\ UNCHANGED nonMatcherVars
    /\ Top.patIdx < Len(Top.pattern)
    /\ Top.lineIdx >= Len(Top.line)
    /\ Return(exhaustedResult(Top.pattern, Top.patIdx))

\* case pattern[patIdx] == Backslash (lines 89-99)
EscapeStep ==
    /\ InLoop
    /\ UNCHANGED nonMatcherVars
    /\ PatByte = Backslash
    /\ IF Top.patIdx + 1 >= Len(Top.pattern)
       THEN Return(FALSE)
       ELSE IF ~matchEscapeSequence(LineByte, At(Top.pattern, Top.patIdx + 1))
       THEN Return(FALSE)
       ELSE Advance(1, 2)

\* case pattern[patIdx] == LeftBracket (lines 101-114); matchCharacterClass
\* reads class[0], an index out of range when the body is empty
BracketStep ==
    /\ InLoop
    /\ UNCHANGED nonMatcherVars
    /\ PatByte = LeftBracket
    /\ LET endIdx == IndexByte(From(Top.pattern, Top.patIdx), RightBracket)
           chars == Slice(Top.pattern, Top.patIdx + 1, Top.patIdx + endIdx)
       IN  IF endIdx = -1
           THEN Return(FALSE)
           ELSE IF Len(chars) = 0
           THEN Panic
           ELSE IF ~matchCharacterClass(LineByte, chars)
           THEN Return(FALSE)
           ELSE Advance(1, endIdx + 1)

\* case pattern[patIdx] == LeftParen (lines 116-128).  Without a `)` endIdx
\* is -1 and pattern[patIdx+1 : patIdx-1] is a slice-bounds panic; without a
\* `|` in the group no statement runs and the loop goes round unchanged.
GroupStep ==
    /\ InLoop
    /\ UNCHANGED nonMatcherVars
    /\ PatByte = LeftParen
    /\ LET endIdx == IndexByte(From(Top.pattern, Top.patIdx), RightParen)
           subPattern == Slice(Top.pattern, Top.patIdx + 1, Top.patIdx + endIdx)
       IN  IF endIdx = -1
           THEN Panic
           ELSE IF Contains(subPattern, <<OrCharacter>>)
           THEN LET alternatives == Split(subPattern, OrCharacter)
                IN  /\ stack' = [stack EXCEPT ![Len(stack)].alts = Tail(alternatives)]
                            \o <<Frame(From(Top.line, Top.lineIdx), Head(alternatives))>>
                    /\ UNCHANGED <<line, pattern, pc, i, anchored, idx, matched,
                                   attempts, tried>>
           ELSE Advance(0, 0)

\* case patIdx+1 < len(pattern) && isQuantifier(pattern[patIdx+1]) (lines 130-137)
QuantifierStep ==
    /\ InLoop
    /\ UNCHANGED nonMatcherVars
    /\ PatByte \notin {Backslash, LeftBracket, LeftParen}
    /\ IsQuantified
    /\ LET q == handleQuantifier(From(Top.line, Top.lineIdx), PatByte,
                                 At(Top.pattern, Top.patIdx + 1))
       IN  IF ~q[2] THEN Return(FALSE) ELSE Advance(q[1], 2)

\* case pattern[patIdx] == line[lineIdx] || pattern[patIdx] == AnyCharacter (lines 139-141)
LiteralStep ==
    /\ InLoop
    /\ UNCHANGED nonMatcherVars
    /\ PatByte \notin {Backslash, LeftBracket, LeftParen}
    /\ ~IsQuantified
    /\ literalMatches(PatByte, LineByte)
    /\ Advance(1, 1)

\* default: return false (lines 143-144)
DefaultStep ==
    /\ InLoop
    /\ UNCHANGED nonMatcherVars
    /\ PatByte \notin {Backslash, LeftBracket, LeftParen}
    /\ ~IsQuantified
    /\ ~literalMatches(PatByte, LineByte)
    /\ Return(FALSE)

Next ==
    \/ Call
    \/ LoopExit
    \/ Exhausted
    \/ EscapeStep
    \/ BracketStep
    \/ GroupStep
    \/ QuantifierStep
    \/ LiteralStep
    \/ DefaultStep

Spec == Init /\ [][Next]_vars

----------------------------------------------------------------------------
(* Processor (package parallel, part_003 lines 33-93) *)

\* no call of Match is in progress
MatcherIdle ==
    /\ line = <<>>
    /\ pattern = <<>>
    /\ pc = "idle"
    /\ i = 0
    /\ anchored = FALSE
    /\ stack = <<>>
    /\ idx = 0
    /\ matched = FALSE
    /\ attempts = <<>>
    /\ tried = <<>>

\* the output of processFunc(itemIdx, item) when it returns no error; the
\* function is the caller's, so its output is left uninterpreted
Out(itemIdx, item) == <<itemIdx, item>>

\* the zero value of Out and the error processFunc returns for itemIdx
ZeroOut == <<>>
ErrOf(itemIdx) == <<"error", itemIdx>>

\* processFunc(itemIdx, item) wrapped in a Result (lines 58-63); a nil Err
\* is <<>>
resultOf(itemIdx) ==
    IF itemIdx \in failing
    THEN [Index |-> itemIdx, Data |-> ZeroOut, Err |-> ErrOf(itemIdx)]
    ELSE [Index |-> itemIdx, Data |-> Out(itemIdx, At(items, itemIdx)), Err |-> <<>>]

\* workerCount without the CPU count standing in for numWorkers <= 0
workerCount_NoDefault(n, cpu, len) ==
    LET w == IF n <= 0 THEN 0 ELSE n
    IN  IF w > len THEN len ELSE w

\* workerCount without the limit of one worker per item
workerCount_Unclamped(n, cpu, len) ==
    IF n <= 0 THEN cpu ELSE n

\* the number of workers started (lines 39-45)
workerCount(n, cpu, len) ==
    LET w == IF n <= 0 THEN cpu ELSE n
    IN  IF w > len THEN len ELSE w

\* as collect, but storing each result where it arrived counted from the end
collect_Reversed(res, err, result) ==
    IF result.Err # <<>>
    THEN <<res, Append(err, result.Err)>>
    ELSE <<[res EXCEPT ![Len(res) - result.Index] = result.Data], err>>

\* the caller's loop body for one received result (lines 81-85)
collect(res, err, result) ==
    IF result.Err # <<>>
    THEN <<res, Append(err, result.Err)>>
    ELSE <<[res EXCEPT ![result.Index + 1] = result.Data], err>>

\* as returnOf, but reporting only the first error received
returnOf_FirstError(res, err) ==
    IF Len(err) > 0
    THEN [results |-> <<>>, isNil |-> TRUE, err |-> <<Head(err)>>]
    ELSE [results |-> res, isNil |-> FALSE, err |-> <<>>]

\* what Processor returns after the loop (lines 88-92): nil results and the
\* error built from all the errors, or the results and a nil error (<<>>)
returnOf(res, err) ==
    IF Len(err) > 0
    THEN [results |-> <<>>, isNil |-> TRUE, err |-> err]
    ELSE [results |-> res, isNil |-> FALSE, err |-> <<>>]

ProcInit ==
    /\ MatcherIdle
    /\ SearchIdle
    /\ WatchIdle
    /\ \E n \in 0..MaxItems :
          /\ items = [k \in 1..n |-> k]
          /\ failing \in SUBSET (0..(n - 1))
          /\ calls = [k \in 1..n |-> 0]
          /\ collected = [k \in 1..n |-> 0]
    /\ numWorkers \in (-1)..MaxWorkers
    /\ ppc = "call"
    /\ itemChan = [closed |-> FALSE, taken |-> <<>>]
    /\ resultsChan = [closed |-> FALSE, buf |-> <<>>]
    /\ wg = 0
    /\ workers = <<>>
    /\ feeder = [pc |-> "idle", idx |-> 0]
    /\ results = <<>>
    /\ errors = <<>>
    /\ returned = [results |-> <<>>, isNil |-> FALSE, err |-> <<>>]

\* Processor up to the collecting loop (lines 35-78): the empty case, the
\* worker count, the channels, the worker and feeder goroutines, the slice
ProcessorCall ==
    /\ ppc = "call"
    /\ UNCHANGED <<nonProcVars, items, failing, calls, collected, itemChan, resultsChan, errors>>
    /\ IF Len(items) = 0
       THEN /\ ppc' = "done"
            /\ returned' = [results |-> <<>>, isNil |-> FALSE, err |-> <<>>]
            /\ UNCHANGED <<numWorkers, wg, workers, feeder, results>>
       ELSE \E cpu \in 1..MaxCPU :
            /\ numWorkers' = workerCount(numWorkers, cpu, Len(items))
            /\ wg' = numWorkers'
            /\ workers' = [w \in 1..numWorkers' |->
                              [pc |-> "recv", itemIdx |-> 0, result |-> <<>>]]
            /\ feeder' = [pc |-> "send", idx |-> 0]
            /\ results' = [k \in 1..Len(items) |-> ZeroOut]
            /\ ppc' = "collect"
            /\ UNCHANGED returned

\* `itemChan <- idx` of the feeder meets `range itemChan` of worker w
\* (lines 56, 69-70): the channel is unbuffered
FeederSend(w) ==
    /\ feeder.pc = "send" /\ feeder.idx < Len(items)
    /\ workers[w].pc = "recv"
    /\ workers' = [workers EXCEPT ![w].pc = "process", ![w].itemIdx = feeder.idx]
    /\ feeder' = [feeder EXCEPT !.idx = @ + 1]
    /\ itemChan' = [itemChan EXCEPT !.taken = Append(@, feeder.idx)]
    /\ UNCHANGED <<nonProcVars, items, failing, calls, collected, numWorkers, ppc, resultsChan, wg,
                   results, errors, returned>>

\* close(itemChan) after the last index (line 72)
FeederClose ==
    /\ feeder.pc = "send" /\ feeder.idx >= Len(items)
    /\ itemChan' = [itemChan EXCEPT !.closed = TRUE]
    /\ feeder' = [feeder EXCEPT !.pc = "wait"]
    /\ UNCHANGED <<nonProcVars, items, failing, calls, collected, numWorkers, ppc, resultsChan, wg,
                   workers, results, errors, returned>>

\* wg.Wait() returns (line 73)
FeederWait ==
    /\ feeder.pc = "wait" /\ wg = 0
    /\ feeder' = [feeder EXCEPT !.pc = "closeResults"]
    /\ UNCHANGED <<nonProcVars, items, failing, calls, collected, numWorkers, ppc, itemChan,
                   resultsChan, wg, workers, results, errors, returned>>

\* close(resultsChan) (line 74)
FeederCloseResults ==
    /\ feeder.pc = "closeResults"
    /\ resultsChan' = [resultsChan EXCEPT !.closed = TRUE]
    /\ feeder' = [feeder EXCEPT !.pc = "end"]
    /\ UNCHANGED <<nonProcVars, items, failing, calls, collected, numWorkers, ppc, itemChan, wg,
                   workers, results, errors, returned>>

\* worker w calls processFunc on its item (lines 57-58)
WorkerProcess(w) ==
    /\ workers[w].pc = "process"
    /\ workers' = [workers EXCEPT ![w].pc = "send",
                                  ![w].result = resultOf(workers[w].itemIdx)]
    /\ calls' = [calls EXCEPT ![workers[w].itemIdx + 1] = @ + 1]
    /\ UNCHANGED <<nonProcVars, items, failing, collected, numWorkers, ppc, itemChan,
                   resultsChan, wg, feeder, results, errors, returned>>

\* worker w sends its Result (lines 59-63); a send on a closed channel is a
\* run-time panic, a send on a full one waits
WorkerSend(w) ==
    /\ workers[w].pc = "send"
    /\ IF resultsChan.closed
       THEN /\ workers' = [workers EXCEPT ![w].pc = "panic"]
            /\ UNCHANGED resultsChan
       ELSE /\ Len(resultsChan.buf) < Len(items)
            /\ resultsChan' = [resultsChan EXCEPT !.buf = Append(@, workers[w].result)]
            /\ workers' = [workers EXCEPT ![w].pc = "recv"]
    /\ UNCHANGED <<nonProcVars, items, failing, calls, collected, numWorkers, ppc, itemChan, wg,
                   feeder, results, errors, returned>>

\* `range itemChan` of worker w ends on the closed channel; the deferred
\* wg.Done() runs (lines 55-56)
WorkerExit(w) ==
    /\ workers[w].pc = "recv"
    /\ itemChan.closed
    /\ workers' = [workers EXCEPT ![w].pc = "exit"]
    /\ wg' = wg - 1
    /\ UNCHANGED <<nonProcVars, items, failing, calls, collected, numWorkers, ppc, itemChan,
                   resultsChan, feeder, results, errors, returned>>

\* the caller receives one result (lines 80-86)
Collect ==
    /\ ppc = "collect"
    /\ resultsChan.buf # <<>>
    /\ LET c == collect(results, errors, Head(resultsChan.buf))
       IN  results' = c[1] /\ errors' = c[2]
    /\ resultsChan' = [resultsChan EXCEPT !.buf = Tail(@)]
    /\ collected' = [collected EXCEPT ![Head(resultsChan.buf).Index + 1] = @ + 1]
    /\ UNCHANGED <<nonProcVars, items, failing, calls, numWorkers, ppc, itemChan, wg,
                   workers, feeder, returned>>

\* `range resultsChan` ends on the closed, drained channel and Processor
\* returns (lines 88-92)
ProcessorReturn ==
    /\ ppc = "collect"
    /\ resultsChan.buf = <<>> /\ resultsChan.closed
    /\ returned' = returnOf(results, errors)
    /\ ppc' = "done"
    /\ UNCHANGED <<nonProcVars, items, failing, calls, collected, numWorkers, itemChan, resultsChan,
                   wg, workers, feeder, results, errors>>

ProcNext ==
    \/ ProcessorCall
    \/ \E w \in 1..Len(workers) : FeederSend(w)
    \/ FeederClose
    \/ FeederWait
    \/ FeederCloseResults
    \/ \E w \in 1..Len(workers) : WorkerProcess(w)
    \/ \E w \in 1..Len(workers) : WorkerSend(w)
    \/ \E w \in 1..Len(workers) : WorkerExit(w)
    \/ Collect
    \/ ProcessorReturn

SpecProc == ProcInit /\ [][ProcNext]_vars

\* The Go scheduler does not leave every runnable goroutine waiting, and
\* processFunc calls are taken to return: while the caller, the feeder or a
\* worker can take a step, one of them eventually does.  Every schedule
\* that is fair to each goroutine is among these.
ProcFairness == WF_vars(ProcNext)

SpecProcFair == ProcInit /\ [][ProcNext]_vars /\ ProcFairness

----------------------------------------------------------------------------
(* SearchWithPattern (package file, fu.go lines 121-236) *)

\* strings.ToLower on ASCII bytes
ToLower(s) == [k \in 1..Len(s) |-> IF s[k] \in 65..90 THEN s[k] + 32 ELSE s[k]]

\* the entries filepath.WalkDir(".") passes to the callback, in its lexical
\* order: the root, a hidden file, a large new file with an upper-case name,
\* a small old file, a directory and a file in it.  depth is
\* calcDepth(fullPath) - calcDepth(basePath); times are days, 0 the zero Time.
Tree ==
    << [path |-> ".",   name |-> <<46>>,     isDir |-> TRUE,  depth |-> 0, size |-> 0, modTime |-> 1],
       [path |-> ".a",  name |-> <<46, 97>>, isDir |-> FALSE, depth |-> 1, size |-> 1, modTime |-> 1],
       [path |-> "Ab",  name |-> <<65, 98>>, isDir |-> FALSE, depth |-> 1, size |-> 3, modTime |-> 3],
       [path |-> "a",   name |-> <<97>>,     isDir |-> FALSE, depth |-> 1, size |-> 1, modTime |-> 1],
       [path |-> "d",   name |-> <<100>>,    isDir |-> TRUE,  depth |-> 1, size |-> 0, modTime |-> 3],
       [path |-> "d/a", name |-> <<97>>,     isDir |-> FALSE, depth |-> 2, size |-> 3, modTime |-> 1] >>

\* the patterns searched for: ab, \w[ab], (a|b), a+
SearchPatterns ==
    { <<97, 98>>,
      <<Backslash, AlphaNumeric, LeftBracket, 97, 98, RightBracket>>,
      <<LeftParen, 97, OrCharacter, 98, RightParen>>,
      <<97, OneOrMore>> }

\* the options the command can build (cmd/files.go lines 61-73, 91-103);
\* sizes and dates are either unset (0) or lie between those of the files
SearchOptionSets ==
    [Recursive : BOOLEAN, Invert : BOOLEAN, MaxDepth : {0, 2},
     CaseSensitive : BOOLEAN, Hidden : BOOLEAN, MaxSize : {0, 2},
     MinSize : {0, 2}, ModifiedAfter : {0, 2}, ModifiedBefore : {0, 2}]

\* isWithinDepth on the depth difference (lines 254-270)
isWithinDepth(depth, maxDepth) == maxDepth = 0 \/ depth <= maxDepth

\* the checks of filterFile before the name is matched (lines 207-227)
passesProperties(e, o) ==
    /\ ~(o.MaxSize > 0 /\ e.size > o.MaxSize)
    /\ ~(o.MinSize > 0 /\ e.size < o.MinSize)
    /\ ~(o.ModifiedBefore # 0 /\ e.modTime > o.ModifiedBefore)
    /\ ~(o.ModifiedAfter # 0 /\ e.modTime < o.ModifiedAfter)
    /\ ~(~o.Hidden /\ e.name # <<>> /\ e.name[1] = 46)

\* the arguments of matcher.Match in filterFile (lines 229-234)
matchArgs(fileName, pat, o) ==
    IF ~o.CaseSensitive THEN <<ToLower(fileName), ToLower(pat)>>
    ELSE <<fileName, pat>>

\* the value filterFile returns once the name was matched (line 235)
filterFile(invert, match) == invert # match

\* foundFiles after the callback, given what filterFile returned
\* (lines 179-189): the entry is skipped when filterFile returned true
afterFilter(found, e, filtered) ==
    IF filtered THEN found ELSE Append(found, e.path)

SearchInit ==
    /\ MatcherIdle
    /\ ProcIdle
    /\ WatchIdle
    /\ searchPattern \in SearchPatterns
    /\ options \in SearchOptionSets
    /\ spc = "call"
    /\ walkIdx = 0
    /\ foundFiles = <<>>
    /\ matchLog = {}

\* SearchWithPattern and searchFiles up to the walk (lines 123-128, 158-165)
SearchCall ==
    /\ spc = "call"
    /\ options' = IF ~options.Recursive THEN [options EXCEPT !.MaxDepth = 1]
                  ELSE options
    /\ spc' = "walk"
    /\ UNCHANGED <<nonSearchVars, searchPattern, walkIdx, foundFiles, matchLog>>

\* the callback of WalkDir on the next entry (lines 165-181), up to its
\* return or to the call of matcher.Match in filterFile
Visit ==
    /\ spc = "walk"
    /\ walkIdx < Len(Tree)
    /\ UNCHANGED <<procVars, watchVars, searchPattern, options, matchLog>>
    /\ LET e == At(Tree, walkIdx)
       IN  IF ~isWithinDepth(e.depth, options.MaxDepth) \/ e.isDir
           THEN /\ walkIdx' = walkIdx + 1
                /\ UNCHANGED <<matcherVars, spc, foundFiles>>
           ELSE IF ~passesProperties(e, options)
           THEN /\ foundFiles' = afterFilter(foundFiles, e, FALSE)
                /\ walkIdx' = walkIdx + 1
                /\ UNCHANGED <<matcherVars, spc>>
           ELSE LET a == matchArgs(e.name, searchPattern, options)
                IN  /\ line' = a[1]
                    /\ pattern' = a[2]
                    /\ pc' = "call"
                    /\ spc' = "match"
                    /\ UNCHANGED <<i, anchored, stack, idx, matched, attempts, tried,
                                   walkIdx, foundFiles>>

\* matcher.Match returned: the rest of filterFile and of the callback
\* (lines 234-235, 179-189)
Visited ==
    /\ spc = "match"
    /\ pc = "done"
    /\ LET e == At(Tree, walkIdx)
       IN  /\ foundFiles' = afterFilter(foundFiles, e, filterFile(options.Invert, matched))
           /\ matchLog' = matchLog \cup {[path |-> e.path, match |-> matched]}
    /\ walkIdx' = walkIdx + 1
    /\ spc' = "walk"
    /\ line' = <<>> /\ pattern' = <<>> /\ pc' = "idle" /\ i' = 0
    /\ anchored' = FALSE /\ stack' = <<>> /\ idx' = 0 /\ matched' = FALSE
    /\ attempts' = <<>> /\ tried' = <<>>
    /\ UNCHANGED <<procVars, watchVars, searchPattern, options>>

\* the walk is over and searchFiles returns foundFiles (lines 192-196)
SearchReturn ==
    /\ spc = "walk"
    /\ walkIdx >= Len(Tree)
    /\ spc' = "done"
    /\ UNCHANGED <<nonSearchVars, searchPattern, options, walkIdx, foundFiles,
                   matchLog>>

SearchNext ==
    \/ SearchCall
    \/ Visit
    \/ Visited
    \/ SearchReturn
    \/ Next

SpecSearch == SearchInit /\ [][SearchNext]_vars

----------------------------------------------------------------------------
(* FileWatcher (package fw, part_004 lines 243-448).  Time is counted in
   ticks of 50 ms. *)

DefaultEventBufferSize == 100
DefaultFlushInterval == 2

FileCreated == 0
FileModified == 1
FileDeleted == 2

\* strings.HasPrefix
HasPrefix(str, prefix) ==
    /\ Len(str) >= Len(prefix)
    /\ SubSeq(str, 1, Len(prefix)) = prefix

\* shouldIgnore that looks the path up in the map
shouldIgnore_Exact(path) == path \in ignorePaths

\* fw.shouldIgnore (lines 332-339)
shouldIgnore(path) == \E ignore \in ignorePaths : HasPrefix(path, ignore)

\* the Type start() gives the FileEvent (lines 373-385); Op is a set of
\* bits, and with none of the three bits Type keeps its zero value
eventType(op) ==
    IF "Create" \in op THEN FileCreated
    ELSE IF "Write" \in op THEN FileModified
    ELSE IF "Remove" \in op THEN FileDeleted
    ELSE FileCreated

\* m[k] = v on a map
insert(m, k, v) == [x \in (DOMAIN m) \cup {k} |-> IF x = k THEN v ELSE m[x]]

\* the paths of the filesystem events: f and gx; the ignored sets: none, g
WatchPaths == {<<102>>, <<103, 120>>}
IgnoreSets == {{}, {<<103>>}}
WatchOps == {{"Create"}, {"Write"}, {"Remove"}}

\* NewFileWatcher has returned and start() is running (lines 291-312, 356-361)
WatchInit ==
    /\ MatcherIdle
    /\ ProcIdle
    /\ SearchIdle
    /\ ignorePaths \in IgnoreSets
    /\ wpc = "run"
    /\ pendingEvents = <<>>
    /\ timer = [armed |-> FALSE, at |-> 0]
    /\ cb = [pc |-> "idle", todo |-> {}]
    /\ eventCh = <<>>
    /\ clock = 0
    /\ received = <<>>

\* one round of the loop of start() on an event (lines 363-396), received
\* early enough for the timer it sets to expire by MaxTime.  The map
\* write is not synchronised with the callback: made while the callback
\* ranges over the map it either ends the program (fatal error: concurrent
\* map iteration and map write) or goes through, and a key it adds may or
\* may not be produced by the range.
Receive(name, op) ==
    /\ wpc = "run"
    /\ Len(received) < MaxEvents
    /\ clock + DefaultFlushInterval <= MaxTime
    /\ received' = Append(received,
            [Name |-> name, Op |-> op, at |-> clock, sent |-> Len(eventCh),
             ignored |-> shouldIgnore(name), racing |-> cb.pc # "idle"])
    /\ UNCHANGED <<nonWatchVars, ignorePaths, eventCh, clock>>
    /\ IF shouldIgnore(name)
       THEN UNCHANGED <<wpc, pendingEvents, timer, cb>>
       ELSE \/ /\ pendingEvents' = insert(pendingEvents, name,
                        [Type |-> eventType(op), Path |-> name, ModTime |-> clock])
               /\ timer' = [armed |-> TRUE, at |-> clock + DefaultFlushInterval]
               /\ IF cb.pc = "range" /\ name \notin DOMAIN pendingEvents
                  THEN \E seen \in BOOLEAN :
                          cb' = [cb EXCEPT !.todo = IF seen THEN @ \cup {name} ELSE @]
                  ELSE UNCHANGED cb
               /\ UNCHANGED wpc
            \/ /\ cb.pc = "range"
               /\ wpc' = "fatal"
               /\ UNCHANGED <<pendingEvents, timer, cb>>

\* fw.Close() closes watcher.Events and start() returns (lines 365-367,
\* 428-430); a timer already set still fires
Close ==
    /\ wpc = "run"
    /\ wpc' = "closed"
    /\ UNCHANGED <<nonWatchVars, ignorePaths, pendingEvents, timer, cb, eventCh,
                   clock, received>>

\* the timer of time.AfterFunc expires and its function starts in its own
\* goroutine (line 393)
TimerFire ==
    /\ wpc # "fatal"
    /\ timer.armed /\ timer.at <= clock
    /\ cb.pc = "idle"
    /\ timer' = [timer EXCEPT !.armed = FALSE]
    /\ cb' = [pc |-> "call", todo |-> {}]
    /\ UNCHANGED <<nonWatchVars, ignorePaths, wpc, pendingEvents, eventCh, clock,
                   received>>

\* the callback calls fw.flushEvents(pendingEvents), which starts to range
\* over the map (lines 394, 410)
FlushStart ==
    /\ wpc # "fatal"
    /\ cb.pc = "call"
    /\ cb' = [pc |-> "range", todo |-> DOMAIN pendingEvents]
    /\ UNCHANGED <<nonWatchVars, ignorePaths, wpc, pendingEvents, timer, eventCh,
                   clock, received>>

\* one iteration of the range: fw.eventCh <- event (lines 410-413)
FlushSend(k) ==
    /\ wpc # "fatal"
    /\ cb.pc = "range"
    /\ k \in cb.todo
    /\ Len(eventCh) < DefaultEventBufferSize
    /\ eventCh' = Append(eventCh,
            [Type |-> pendingEvents[k].Type, Path |-> pendingEvents[k].Path,
             ModTime |-> pendingEvents[k].ModTime, at |-> clock])
    /\ cb' = [cb EXCEPT !.todo = @ \ {k}]
    /\ UNCHANGED <<nonWatchVars, ignorePaths, wpc, pendingEvents, timer, clock,
                   received>>

\* the range is over and the callback replaces the map (line 395)
FlushEnd ==
    /\ wpc # "fatal"
    /\ cb.pc = "range"
    /\ cb.todo = {}
    /\ pendingEvents' = <<>>
    /\ cb' = [pc |-> "idle", todo |-> {}]
    /\ UNCHANGED <<nonWatchVars, ignorePaths, wpc, timer, eventCh, clock, received>>

\* a tick passes; an expired timer fires before the next tick, and the
\* callback takes less than a tick
Tick ==
    /\ wpc # "fatal"
    /\ clock < MaxTime
    /\ cb.pc = "idle"
    /\ ~(timer.armed /\ timer.at <= clock)
    /\ clock' = clock + 1
    /\ UNCHANGED <<nonWatchVars, ignorePaths, wpc, pendingEvents, timer, cb,
                   eventCh, received>>

WatchNext ==
    \/ \E name \in WatchPaths, op \in WatchOps : Receive(name, op)
    \/ Close
    \/ TimerFire
    \/ FlushStart
    \/ \E k \in WatchPaths : FlushSend(k)
    \/ FlushEnd
    \/ Tick

SpecWatch == WatchInit /\ [][WatchNext]_vars

\* Time passes, a timer that has expired runs its function (time.AfterFunc,
\* line 393), and the goroutine of that function keeps running: the channel
\* is drained, so its sends do not wait.  Nothing is assumed of the arrival
\* of events or of Close.
WatchFairness ==
    /\ WF_vars(Tick)
    /\ WF_vars(TimerFire)
    /\ WF_vars(FlushStart)
    /\ WF_vars(\E k \in WatchPaths : FlushSend(k))
    /\ WF_vars(FlushEnd)

SpecWatchFair == WatchInit /\ [][WatchNext]_vars /\ WatchFairness

----------------------------------------------------------------------------
(* Properties of Match and MatchWithIdx *)

Returned == pc = "done"

LastAttempt == attempts[Len(attempts)]

Range(s) == {s[k] : k \in 1..Len(s)}

\* C1: when Match has returned, it returned true exactly when the index
\* MatchWithIdx returned differs from -1.
C1_MatchIffIndex == Returned => (matched <=> idx # -1)

\* a match found at a later offset than 0
C1_Witness == Returned /\ matched /\ idx > 0

\* C2: every iteration of matchStart's loop that does not return strictly
\* advances the pattern cursor (so every call terminates).
C2_LoopAdvances ==
    [][(/\ pc = "match" /\ pc' = "match"
        /\ Len(stack') = Len(stack)
        /\ Top'.iter = Top.iter + 1) => Top'.patIdx > Top.patIdx]_vars

\* C3: for a non-empty pattern without a leading `^`, the offsets 0, 1, ...
\* are attempted in ascending order with the full pattern, the value
\* returned is the first offset whose attempt succeeded, and it is -1 when
\* every offset of the line was attempted and failed.
C3_LeftmostOffset ==
    (Returned /\ pattern # <<>> /\ At(pattern, 0) # StartsWith) =>
        /\ idx \in {-1} \cup (0..(Len(line) - 1))
        /\ \A k \in 1..Len(attempts) :
              /\ attempts[k].line = From(line, k - 1)
              /\ attempts[k].pat = pattern
              /\ attempts[k].ok <=> (k = idx + 1)
        /\ Len(attempts) = (IF idx = -1 THEN Len(line) ELSE idx + 1)

\* two offsets failed before the one reported
C3_Witness ==
    /\ Returned /\ pattern # <<>> /\ At(pattern, 0) # StartsWith
    /\ idx = 2 /\ Len(attempts) = 3

\* C4: for a pattern "^" + q, matchStart is called once, with the whole line
\* and q, and the value returned is 0 when it succeeded and -1 otherwise.
C4_AnchorOnlyOffsetZero ==
    (Returned /\ pattern # <<>> /\ At(pattern, 0) = StartsWith) =>
        /\ Len(attempts) = 1
        /\ attempts[1].line = line
        /\ attempts[1].pat = From(pattern, 1)
        /\ idx = (IF attempts[1].ok THEN 0 ELSE -1)

\* the anchored pattern fails although its remainder occurs later in the line
C4_Witness ==
    /\ Returned /\ Len(pattern) > 1 /\ At(pattern, 0) = StartsWith
    /\ idx = -1
    /\ \E off \in 1..(Len(line) - 1) : At(line, off) = At(pattern, 1)

\* C5: for a pattern that ends in `$`, a reported match has consumed the
\* line up to its end: the line cursor of the successful attempt equals the
\* length of the suffix it was made on.
C5_EndAnchorConsumesLine ==
    (Returned /\ pattern # <<>> /\ pattern[Len(pattern)] = EndsWith /\ idx # -1) =>
        LastAttempt.used = Len(LastAttempt.line)

\* C6: for the empty pattern MatchWithIdx returns 0 and Match returns true,
\* whatever the line.
C6_EmptyPattern == (Returned /\ pattern = <<>>) => (idx = 0 /\ matched)

\* the empty pattern on the empty line
C6_Witness == Returned /\ pattern = <<>> /\ line = <<>> /\ idx = 0

\* the innermost activation stands at a `(` that no `)` follows
AtUnclosedGroup ==
    /\ stack # <<>>
    /\ Top.patIdx < Len(Top.pattern)
    /\ PatByte = LeftParen
    /\ IndexByte(From(Top.pattern, Top.patIdx), RightParen) = -1

\* C7: a `(` without a closing `)` makes the attempt fail; the call does not
\* abort with a run-time error there.
C7_UnclosedGroupNoAbort == ~(pc = "panic" /\ AtUnclosedGroup)

\* C8: the pattern `a*` matches every line made of n >= 0 bytes `a`.
C8_StarMatchesRun ==
    (/\ Returned
     /\ pattern = <<97, ZeroOrMore>>
     /\ \A k \in 1..Len(line) : line[k] = 97) => matched

\* a pattern of plain literal bytes and `.` only
IsPlainPattern(p) ==
    /\ p # <<>>
    /\ \A k \in 1..Len(p) :
          p[k] \notin {StartsWith, EndsWith, Backslash, LeftBracket, RightBracket,
                       LeftParen, RightParen, OrCharacter,
                       ZeroOrMore, OneOrMore, ZeroOrOne}

\* p lies in l at offset off, `.` standing for any byte
OccursAt(l, p, off) ==
    /\ off + Len(p) <= Len(l)
    /\ \A k \in 0..(Len(p) - 1) :
          At(p, k) = AnyCharacter \/ At(p, k) = At(l, off + k)

\* C9: a pattern of plain literals and `.` matches a line exactly when it
\* lies in the line at some offset, `.` standing for any one byte.
C9_PlainPatternIsContainment ==
    (Returned /\ IsPlainPattern(pattern)) =>
        (matched <=> \E off \in 0..Len(line) : OccursAt(line, pattern, off))

\* a two-byte pattern with a wildcard found past offset 0
C9_Witness ==
    /\ Returned /\ IsPlainPattern(pattern) /\ Len(pattern) = 2
    /\ AnyCharacter \in Range(pattern)
    /\ matched /\ idx = 1

\* the pattern is one bracket class `[body]`
IsOneClass(p) ==
    /\ Len(p) >= 2
    /\ p[1] = LeftBracket
    /\ p[Len(p)] = RightBracket
    /\ \A k \in 2..(Len(p) - 1) : p[k] # RightBracket

\* C10: a one-byte line c matches `[b]` iff c occurs in b, and `[^b]` iff c
\* does not occur in b, for every class body b that does not start with `^`.
C10_ClassSymmetry ==
    (Returned /\ Len(line) = 1 /\ IsOneClass(pattern)) =>
        LET body == Slice(pattern, 1, Len(pattern) - 1)
            c == line[1]
        IN  IF body # <<>> /\ body[1] = NotInClass
            THEN LET b == Tail(body)
                 IN  (b = <<>> \/ b[1] # NotInClass) =>
                        (matched <=> c \notin Range(b))
            ELSE matched <=> c \in Range(body)

\* the interior of the group at the pattern cursor of activation c
GroupInterior(c) ==
    Slice(c.pattern, c.patIdx + 1,
          c.patIdx + IndexByte(From(c.pattern, c.patIdx), RightParen))

\* the attempt a reached a group: its alternatives were tried in listed
\* order, each on the line suffix at the cursor, up to the first that
\* succeeded, and a succeeded iff one of them did
TriedInOrder(a) ==
    LET c == a.alts[1].caller
        listed == Split(GroupInterior(c), OrCharacter)
    IN  /\ c.line = a.line /\ c.pattern = a.pat
        /\ Len(a.alts) <= Len(listed)
        /\ \A k \in 1..Len(a.alts) :
              /\ a.alts[k].alt.pattern = listed[k]
              /\ a.alts[k].alt.line = From(c.line, c.lineIdx)
              /\ a.alts[k].caller.patIdx = c.patIdx
              /\ a.alts[k].ok <=> (k = Len(a.alts) /\ a.ok)
        /\ ~a.ok => Len(a.alts) = Len(listed)

\* the pattern is exactly one group of non-empty literal alternatives
IsLiteralGroup(p) ==
    /\ Len(p) >= 2
    /\ p[1] = LeftParen
    /\ IndexByte(p, RightParen) = Len(p) - 1
    /\ Contains(p, <<OrCharacter>>)
    /\ \A k \in 2..(Len(p) - 1) :
          p[k] = OrCharacter \/ (IsPlainPattern(<<p[k]>>) /\ p[k] # AnyCharacter)
    /\ \A k \in 1..(Len(p) - 1) : ~(p[k] \in {LeftParen, OrCharacter}
                                    /\ p[k + 1] \in {OrCharacter, RightParen})

\* C11: the alternatives of a group are tried in listed order, each as a
\* fresh attempt on the current line suffix; the attempt succeeds iff one of
\* them succeeds, whatever follows the `)`; and a pattern that is exactly a
\* group of literal alternatives matches iff one of them occurs in the line.
C11_GroupAlternatives ==
    /\ \A n \in 1..Len(attempts) :
          attempts[n].alts # <<>> => TriedInOrder(attempts[n])
    /\ (Returned /\ IsLiteralGroup(pattern)) =>
          (matched <=>
              \E k \in 1..Len(Split(Slice(pattern, 1, Len(pattern) - 1), OrCharacter)) :
                  \E off \in 0..Len(line) :
                      OccursAt(line, Split(Slice(pattern, 1, Len(pattern) - 1),
                                           OrCharacter)[k], off))

\* the second alternative succeeded at the end of the line, and the `b`
\* that follows the group in the pattern was never looked at
C11_Witness ==
    /\ Returned /\ matched /\ attempts # <<>>
    /\ Len(LastAttempt.alts) = 2
    /\ pattern[Len(pattern)] = 98
    /\ LastAttempt.used = Len(LastAttempt.line)

\* every activation has its cursors within the line and the pattern
CursorsInRange ==
    \A k \in 1..Len(stack) :
        /\ 0 <= stack[k].lineIdx /\ stack[k].lineIdx <= Len(stack[k].line)
        /\ 0 <= stack[k].patIdx /\ stack[k].patIdx <= Len(stack[k].pattern)

\* an activation that goes from one iteration to the next keeps its line
\* and pattern and moves neither cursor back
CursorsAdvance ==
    \A k \in 1..Len(stack) :
        (k <= Len(stack') /\ stack'[k].iter = stack[k].iter + 1) =>
            /\ stack'[k].line = stack[k].line
            /\ stack'[k].pattern = stack[k].pattern
            /\ stack'[k].lineIdx >= stack[k].lineIdx
            /\ stack'[k].patIdx >= stack[k].patIdx

\* C18: in every state of an attempt 0 <= lineIdx <= len(line) and
\* 0 <= patIdx <= len(pattern), and no cursor decreases from one loop
\* iteration to the next.
C18_CursorsBounded == [](CursorsInRange) /\ [][CursorsAdvance]_vars

\* after two iterations both cursors stand at the end: three line bytes and
\* the whole pattern are used
C18_Witness ==
    /\ pc = "match"
    /\ Len(stack) = 1
    /\ Top.iter = 2
    /\ Top.lineIdx = 3 /\ Top.lineIdx = Len(Top.line)
    /\ Top.patIdx = Len(Top.pattern)

\* the innermost activation returns v in this step: the outermost one ends
\* an attempt, an alternative's is recorded with its caller
ReturnsValue(v) ==
    IF Len(stack) = 1
    THEN /\ Len(attempts') = Len(attempts) + 1
         /\ attempts'[Len(attempts')].ok = v
    ELSE LET log == IF tried' # <<>> THEN tried'
                    ELSE IF attempts' # <<>> THEN attempts'[Len(attempts')].alts
                    ELSE <<>>
         IN  /\ Len(log) = Len(tried) + 1
             /\ log[Len(log)].alt = Top
             /\ log[Len(log)].ok = v

\* the line cursor is at the end of the line and pattern bytes remain
LineExhausted ==
    /\ AtLoopHead
    /\ Top.patIdx < Len(Top.pattern)
    /\ Top.lineIdx >= Len(Top.line)

\* C19: with the line used up and pattern left, the activation returns true
\* iff what is left of the pattern is exactly `$`; it returns false for every
\* other remainder, b* and b? included.
C19_ExhaustedOnlyDollar ==
    [][LineExhausted => ReturnsValue(From(Top.pattern, Top.patIdx) = <<EndsWith>>)]_vars

\* ab* was attempted on the line a: the attempt used the a and failed
C19_Witness ==
    /\ Returned
    /\ line = <<97>> /\ pattern = <<97, 98, ZeroOrMore>>
    /\ ~matched
    /\ Len(attempts) = 1 /\ attempts[1].used = 1 /\ ~attempts[1].ok

\* the activation stands at a `[` and no `]` follows in its pattern
AtUnclosedBracket ==
    /\ AtLoopHead
    /\ Top.patIdx < Len(Top.pattern)
    /\ PatByte = LeftBracket
    /\ \A k \in (Top.patIdx + 1)..Len(Top.pattern) : Top.pattern[k] # RightBracket

\* C20: at a `[` with no `]` after it the activation returns false and there
\* is no run-time error.
C20_UnclosedBracketFails ==
    [][AtUnclosedBracket => (pc' # "panic" /\ ReturnsValue(FALSE))]_vars

\* a[ was attempted on the line ab: the a matched, the `[` was reached with
\* the b still to read, and the attempt failed
C20_Witness ==
    /\ Returned
    /\ line = <<97, 98>> /\ pattern = <<97, LeftBracket>>
    /\ ~matched
    /\ Len(attempts) = 2 /\ attempts[1].used = 1 /\ ~attempts[1].ok

\* the innermost activation ends its iteration with the line cursor moved
\* on by dl and the pattern cursor by dp
Advanced(dl, dp) ==
    /\ pc' = "match"
    /\ Len(stack') = Len(stack)
    /\ stack'[Len(stack')].line = Top.line
    /\ stack'[Len(stack')].pattern = Top.pattern
    /\ stack'[Len(stack')].lineIdx = Top.lineIdx + dl
    /\ stack'[Len(stack')].patIdx = Top.patIdx + dp

\* what an escaped class \c accepts: an ASCII digit for d; a letter, a
\* digit or the underscore for w; the byte c itself otherwise
EscapeAccepts(c, b) ==
    IF c = Digit THEN b \in 48..57
    ELSE IF c = AlphaNumeric THEN IsLetter(b) \/ b \in 48..57 \/ b = 95
    ELSE b = c

\* C21: at an escaped class \c the step succeeds iff the line byte is what
\* \c accepts, and then moves the line cursor by 1 and the pattern cursor by
\* 2; otherwise, and for a backslash that ends the pattern, the activation
\* returns false.
C21_EscapedClass ==
    [][ (AtLoopHead /\ Top.patIdx < Len(Top.pattern) /\ PatByte = Backslash) =>
            IF Top.patIdx + 1 >= Len(Top.pattern) THEN ReturnsValue(FALSE)
            ELSE IF Top.lineIdx >= Len(Top.line) THEN ReturnsValue(FALSE)
            ELSE IF EscapeAccepts(At(Top.pattern, Top.patIdx + 1), LineByte)
            THEN Advanced(1, 2)
            ELSE ReturnsValue(FALSE) ]_vars

\* \d\w matched the line 1_ at offset 0
C21_Witness ==
    /\ Returned
    /\ line = <<49, 95>>
    /\ pattern = <<Backslash, Digit, Backslash, AlphaNumeric>>
    /\ matched /\ idx = 0
    /\ attempts[1].used = 2

\* the innermost activation stands at a bracket class with an empty body
AtEmptyClass ==
    /\ stack # <<>>
    /\ Top.patIdx < Len(Top.pattern)
    /\ Top.lineIdx < Len(Top.line)
    /\ PatByte = LeftBracket
    /\ IndexByte(From(Top.pattern, Top.patIdx), RightBracket) = 1

\* C22: the class `[]` matches no line byte: the attempt fails with a plain
\* false and the call does not abort.
C22_EmptyClassFails == ~(pc = "panic" /\ AtEmptyClass)

\* the length of the maximal run of bytes c in l from the 0-based place from
RunLength(l, from, c) ==
    CHOOSE n \in 0..(Len(l) - from) :
        /\ \A k \in 1..n : l[from + k] = c
        /\ (from + n = Len(l) \/ l[from + n + 1] # c)

\* the innermost activation is about to take a quantified literal
AtQuantified ==
    /\ InLoop
    /\ PatByte \notin {Backslash, LeftBracket, LeftParen}
    /\ IsQuantified

\* C23: at a literal c followed by a quantifier, with n the length of the
\* run of c at the line cursor: `*` accepts n, `+` accepts n and fails when
\* n = 0, `?` accepts min(n, 1); the line cursor moves by the accepted count
\* and the pattern cursor by 2.
C23_QuantifiedLiteral ==
    [][ AtQuantified =>
            LET n == RunLength(Top.line, Top.lineIdx, PatByte)
                q == At(Top.pattern, Top.patIdx + 1)
            IN  CASE q = ZeroOrMore -> Advanced(n, 2)
                  [] q = OneOrMore -> IF n > 0 THEN Advanced(n, 2) ELSE ReturnsValue(FALSE)
                  [] q = ZeroOrOne -> Advanced(IF n > 1 THEN 1 ELSE n, 2) ]_vars

\* a?b is attempted on aab: of the run of two a the `?` accepted one
C23_Witness ==
    /\ pc = "match"
    /\ Len(stack) = 1
    /\ Top.line = <<97, 97, 98>>
    /\ Top.pattern = <<97, ZeroOrOne, 98>>
    /\ Top.lineIdx = 1 /\ Top.patIdx = 2 /\ Top.iter = 1

\* c*c or c+c for a literal c
IsRunThenSame(p) ==
    /\ Len(p) = 3
    /\ p[1] \in {97, 98}
    /\ p[2] \in {ZeroOrMore, OneOrMore}
    /\ p[3] = p[1]

\* C24: no offset is attempted twice, so a count once accepted is never
\* reduced; the patterns c*c and c+c match no line, MatchWithIdx gives -1.
C24_NoBacktracking ==
    /\ \A n \in 1..Len(attempts) : attempts[n].line = From(line, n - 1)
    /\ (Returned /\ IsRunThenSame(pattern)) => (~matched /\ idx = -1)

\* a*a was attempted on aaa once at each of the three offsets and failed
C24_Witness ==
    /\ Returned
    /\ line = <<97, 97, 97>> /\ pattern = <<97, ZeroOrMore, 97>>
    /\ idx = -1
    /\ Len(attempts) = 3
    /\ attempts[1].used = 3

\* C25: the token at the pattern cursor is taken as an escape, else as a
\* bracket class, else as a group, else as a quantified byte, else as a
\* literal or wildcard.  An escape or a class moves the pattern cursor just
\* past itself, onto a quantifier that may follow, and a quantified `.`
\* accepts the run of bytes equal to `.`.
C25_DispatchPriority ==
    [][ InLoop =>
          CASE PatByte = Backslash ->
                   ReturnsValue(FALSE) \/ Advanced(1, 2)
            [] PatByte = LeftBracket ->
                   \/ pc' = "panic"
                   \/ ReturnsValue(FALSE)
                   \/ Advanced(1, IndexByte(From(Top.pattern, Top.patIdx), RightBracket) + 1)
            [] PatByte = LeftParen ->
                   \/ pc' = "panic"
                   \/ Len(stack') = Len(stack) + 1
                   \/ Advanced(0, 0)
            [] PatByte \notin {Backslash, LeftBracket, LeftParen} /\ IsQuantified ->
                   \/ ReturnsValue(FALSE)
                   \/ Advanced(RunLength(Top.line, Top.lineIdx, PatByte), 2)
                   \/ /\ At(Top.pattern, Top.patIdx + 1) = ZeroOrOne
                      /\ RunLength(Top.line, Top.lineIdx, PatByte) > 1
                      /\ Advanced(1, 2)
            [] OTHER ->
                   ReturnsValue(FALSE) \/ Advanced(1, 1) ]_vars

\* \d* matched the line 1* at offset 0: the class took the 1 and the `*` was
\* then taken as a literal
C25_Witness ==
    /\ Returned
    /\ line = <<49, ZeroOrMore>> /\ pattern = <<Backslash, Digit, ZeroOrMore>>
    /\ matched /\ idx = 0
    /\ attempts[1].used = 2

\* C26: on the empty line a non-empty pattern without a leading `^` is not
\* attempted at any offset and MatchWithIdx gives -1; with a leading `^` the
\* rest of the pattern is attempted once, at offset 0, and `^$` matches at 0.
C26_EmptyLine ==
    (line = <<>> /\ pattern # <<>>) =>
        /\ pc # "panic"
        /\ Returned =>
              IF pattern[1] # StartsWith
              THEN attempts = <<>> /\ idx = -1 /\ ~matched
              ELSE /\ Len(attempts) = 1
                   /\ attempts[1].line = <<>>
                   /\ attempts[1].pat = From(pattern, 1)
                   /\ idx = (IF attempts[1].ok THEN 0 ELSE -1)
                   /\ (pattern = <<StartsWith, EndsWith>> => (matched /\ idx = 0))

\* ^$ matched the empty line at offset 0
C26_Witness ==
    /\ Returned
    /\ line = <<>> /\ pattern = <<StartsWith, EndsWith>>
    /\ matched /\ idx = 0
    /\ Len(attempts) = 1

----------------------------------------------------------------------------
(* Properties of Processor *)

ProcessorReturned == ppc = "done"

\* C12: when no processFunc call returns an error, Processor returns
\* len(items) results and results[i] is the output of processFunc(i, items[i]).
C12_ResultsInInputOrder ==
    (ProcessorReturned /\ failing = {}) =>
        /\ ~returned.isNil
        /\ returned.err = <<>>
        /\ Len(returned.results) = Len(items)
        /\ \A k \in 0..(Len(items) - 1) :
              At(returned.results, k) = Out(k, At(items, k))

\* three items went through two workers, handed over in input order, and
\* the last result is in the last place
C12_Witness ==
    /\ ProcessorReturned /\ failing = {}
    /\ Len(items) = 3 /\ numWorkers = 2
    /\ itemChan.taken = <<0, 1, 2>>
    /\ At(returned.results, 2) = Out(2, 3)

\* the item indices handed to workers so far
Taken == {itemChan.taken[k] : k \in 1..Len(itemChan.taken)}

WorkersExited == \A w \in 1..Len(workers) : workers[w].pc = "exit"

\* Processor is over: it returned and, for a non-empty item list, the feeder
\* dispatched every index and ended, the workers exited and the results
\* channel is closed and drained
ProcessorOver ==
    /\ ProcessorReturned
    /\ items # <<>> =>
          /\ feeder.pc = "end" /\ feeder.idx = Len(items)
          /\ workers # <<>> /\ WorkersExited
          /\ wg = 0
          /\ resultsChan.closed /\ resultsChan.buf = <<>>

\* C27: under fair scheduling Processor always returns, with every item
\* dispatched, every worker exited and the results channel closed, and the
\* results channel is closed only once every worker has exited, so that no
\* worker sends on it afterwards.
C27_AlwaysReturns ==
    /\ [](resultsChan.closed => WorkersExited)
    /\ [](\A w \in 1..Len(workers) : workers[w].pc # "panic")
    /\ <>[]ProcessorOver

\* a call with several items and several workers is over
C27_Witness ==
    /\ ProcessorOver
    /\ Len(items) >= 2 /\ Len(workers) >= 2
    /\ feeder.pc = "end"

Min(a, b) == IF a < b THEN a ELSE b

\* how many times v occurs in the sequence s
Occurrences(s, v) == Cardinality({k \in 1..Len(s) : s[k] = v})

Indices == 0..(Len(items) - 1)

\* no index is handed over, processed or collected twice, and none is
\* processed before it is handed over or collected before it is processed
AtMostOnce ==
    /\ Taken \subseteq Indices
    /\ \A k \in Indices :
          /\ Occurrences(itemChan.taken, k) <= 1
          /\ At(calls, k) <= Occurrences(itemChan.taken, k)
          /\ At(collected, k) <= At(calls, k)

\* every index was handed over, processed and collected, once each
AllOnce ==
    /\ Len(itemChan.taken) = Len(items)
    /\ \A k \in Indices :
          /\ Occurrences(itemChan.taken, k) = 1
          /\ At(calls, k) = 1
          /\ At(collected, k) = 1

\* C28: every index is handed to a worker at most once and processFunc is
\* called at most once per index; when Processor has returned each index was
\* handed over, processed and collected exactly once; the number of workers
\* started is min(numWorkers, len(items)), the CPU count standing in for
\* numWorkers <= 0.
C28_EachIndexOnce ==
    /\ [](AtMostOnce /\ (ProcessorReturned => AllOnce))
    /\ [][ProcessorCall =>
            \E cpu \in 1..MaxCPU :
                Len(workers') =
                    Min(IF numWorkers <= 0 THEN cpu ELSE numWorkers, Len(items))]_vars

\* three items went through two workers and Processor returned with one
\* processFunc call and one collected result for the last of them
C28_Witness ==
    /\ ProcessorReturned
    /\ Len(items) = 3 /\ Len(workers) = 2
    /\ At(calls, 2) = 1 /\ At(collected, 2) = 1
    /\ Len(results) = 3

----------------------------------------------------------------------------
(* Properties of SearchWithPattern *)

Found == {foundFiles[k] : k \in 1..Len(foundFiles)}

\* the files within the depth limit, as places in Tree
Candidates ==
    {k \in 0..(Len(Tree) - 1) :
        ~At(Tree, k).isDir /\ isWithinDepth(At(Tree, k).depth, options.MaxDepth)}

\* Match was called on the entry's name and returned m
NameMatched(e, m) == [path |-> e.path, match |-> m] \in matchLog

\* C14: a file within the depth limit is returned iff it passes the size,
\* modification-time and hidden-file filters and its name matches the
\* pattern (does not match it, with Invert).
C14_ReturnsMatching ==
    spc = "done" =>
        \A k \in Candidates :
            At(Tree, k).path \in Found <=>
                /\ passesProperties(At(Tree, k), options)
                /\ NameMatched(At(Tree, k), ~options.Invert)

----------------------------------------------------------------------------
(* Properties of FileWatcher *)

\* the received events for path p that were not ignored, as places in the
\* history, and the FileEvents sent for p, as places in the channel
EventsFor(p) == {k \in 1..Len(received) : received[k].Name = p /\ ~received[k].ignored}
SentFor(p) == {k \in 1..Len(eventCh) : eventCh[k].Path = p}

\* j is the event for the same path that follows k
FollowsFor(p, k, j) ==
    /\ k \in EventsFor(p) /\ j \in EventsFor(p) /\ k < j
    /\ \A m \in EventsFor(p) : ~(k < m /\ m < j)

\* several events for p, each less than the flush interval after the one before
Burst(p) ==
    /\ Cardinality(EventsFor(p)) >= 2
    /\ \A k, j \in EventsFor(p) :
          FollowsFor(p, k, j) => received[j].at - received[k].at < DefaultFlushInterval

LastAt(p) == received[CHOOSE k \in EventsFor(p) : \A j \in EventsFor(p) : j <= k].at

\* nothing more will be sent for what was received
Settled == wpc = "fatal" \/ (~timer.armed /\ cb.pc = "idle")

\* C15: when the events for a path come in one burst, exactly one FileEvent
\* for the path is sent, and not before a flush interval has passed since
\* the last of them.
C15_Debounced ==
    \A p \in WatchPaths :
        Burst(p) =>
            /\ Cardinality(SentFor(p)) <= 1
            /\ \A k \in SentFor(p) : eventCh[k].at >= LastAt(p) + DefaultFlushInterval
            /\ Settled => Cardinality(SentFor(p)) = 1

\* C16: no FileEvent whose path has an entry of ignorePaths as a prefix is
\* ever sent.
C16_IgnoredNeverSent ==
    \A k \in 1..Len(eventCh) :
        \A ignore \in ignorePaths : ~HasPrefix(eventCh[k].Path, ignore)

\* an event for gx was dropped because g is ignored, and one for f was sent
C16_Witness ==
    /\ <<103>> \in ignorePaths
    /\ \E k \in 1..Len(received) : received[k].Name = <<103, 120>> /\ received[k].ignored
    /\ eventCh # <<>>

\* the events for p are a Create and then a Write within one flush interval
CreateThenWrite(p) ==
    \E k, j \in EventsFor(p) :
        /\ EventsFor(p) = {k, j} /\ k < j
        /\ received[k].Op = {"Create"} /\ received[j].Op = {"Write"}
        /\ received[j].at - received[k].at < DefaultFlushInterval

\* C17: a Create followed by a Write of the same file within one flush
\* interval gives exactly one FileEvent, of type FileModified.
C17_LastTypeWins ==
    \A p \in WatchPaths :
        CreateThenWrite(p) =>
            /\ Cardinality(SentFor(p)) <= 1
            /\ \A k \in SentFor(p) : eventCh[k].Type = FileModified
            /\ Settled => Cardinality(SentFor(p)) = 1

\* no event was received while the callback of an earlier timer was running
NoRace == \A k \in 1..Len(received) : ~received[k].racing

\* the k-th event the loop received was for a path that is not ignored
Accepted(k) == k <= Len(received) /\ ~received[k].ignored

\* a FileEvent for the path of the k-th event was sent after the loop
\* received it
Served(k) ==
    /\ Accepted(k)
    /\ \E j \in SentFor(received[k].Name) : j > received[k].sent

\* C29: every event for a non-ignored path that the loop receives is
\* eventually followed by a FileEvent for that path on the channel.
C29_NoEventLost == \A k \in 1..MaxEvents : Accepted(k) ~> Served(k)

\* C30: the loop never writes to the pending-events map between the moment
\* the timer's function starts to range over it and the moment it replaces it.
C30_NoOverlap ==
    [][(/\ Len(received') = Len(received) + 1
        /\ ~received'[Len(received')].ignored) => cb.pc # "range"]_vars

============================================================================
